---- MODULE Spec2Model ----
(***************************************************************************)
(* Verification model of the optimisation middle-end:                      *)
(*   - BindingStore (src/ast/transform/MagicSet.h)                         *)
(*   - the adornment worklist of AdornDatabaseTransformer                  *)
(*     (src/ast/transform/MagicSet.h)                                      *)
(*   - the RAM passes LevelConditions, CreateIndices and                   *)
(*     ConvertExistenceChecks (src/RamTransforms.cpp)                      *)
(*   - UniqueAggregationVariablesTransformer                               *)
(*     (src/ast/transform/UniqueAggregationVariables.cpp)                  *)
(***************************************************************************)
EXTENDS Integers, Sequences, FiniteSets, Bags, TLC

VARIABLES
    clause,               \* the AstClause handed to the BindingStore constructor
    boundVariables,       \* BindingStore::boundVariables
    boundHeadVariables,   \* BindingStore::boundHeadVariables
    bindingDependencies,  \* BindingStore::bindingDependencies
    explicitlyBound,      \* arguments of all bindVariable calls so far
    reduceTerminated,     \* the last reduceDependencies call returned
    assertOk,             \* the assertions of the last reduceDependencies call held
    query,                \* the RamQuery of the program the RAM passes work on
    prevQuery,            \* the query as it was handed to the last pass
    lastPass,             \* the pass applied last
    passChanged,          \* the flag the last pass returned
    headAdornmentsToDo,   \* AdornDatabaseTransformer::headAdornmentsToDo
    headAdornmentsSeen,   \* AdornDatabaseTransformer::headAdornmentsSeen
    adornPc,              \* position of AdornDatabaseTransformer::transform
    callsLeft,            \* queueAdornment calls left before transform moves on
    inserted,             \* how often each pair was inserted into headAdornmentsToDo
    popped,               \* the pairs nextAdornmentToProcess has returned
    translationUnit,      \* the program UniqueAggregationVariables works on
    prevUnit,             \* the program as it was handed to the last application
    aggChanged,           \* the flag the last application returned
    aggApplications       \* number of applications of UniqueAggregationVariables

storeVars == <<clause, boundVariables, boundHeadVariables, bindingDependencies,
               explicitlyBound, reduceTerminated, assertOk>>

ramVars == <<query, prevQuery, lastPass, passChanged>>

adornVars == <<headAdornmentsToDo, headAdornmentsSeen, adornPc, callsLeft,
               inserted, popped>>

aggVars == <<translationUnit, prevUnit, aggChanged, aggApplications>>

vars == <<storeVars, ramVars, adornVars, aggVars>>

-----------------------------------------------------------------------------
(* Bounds of the clause universe *)

\* largest number of binary constraints in a clause
MaxConstraints == 2
\* recursion depth after which reduceDependencies is reported as diverging
MaxPasses == 12

VarNames == {"w", "x", "y", "z"}

\* the variables of the head atom of the clause
HeadVarNames == {"x", "y"}

\* a null pointer
Null == [kind |-> "Null"]

-----------------------------------------------------------------------------
(* Rule IR: arguments and binary constraints of a clause.                  *)
(* An argument carries the set of AstVariable names below it (what         *)
(* visitDepthFirst over AstVariable collects), its direct argument list    *)
(* when it is an AstRecordInit, and whether an AstAggregator occurs in it. *)

Variable(v) == [kind |-> "Variable", name |-> v, subVars |-> {v}, args |-> <<>>]
Functor(S) == [kind |-> "Functor", name |-> "f", subVars |-> S, args |-> <<>>]
RecordInit(as) == [kind |-> "RecordInit", name |-> "rec",
                   subVars |-> {as[i] : i \in DOMAIN as}, args |-> as]
Aggregator(S) == [kind |-> "Aggregator", name |-> "agg", subVars |-> S, args |-> <<>>]

BinaryConstraint(op, l, r) == [op |-> op, lhs |-> l, rhs |-> r]

RightHandSides ==
    {Functor(S) : S \in SUBSET {"w", "y", "z"}}
        \cup {Variable(v) : v \in VarNames}
        \cup {RecordInit(<<"y">>), RecordInit(<<"y", "z">>), RecordInit(<<"w", "x">>)}
        \cup {Aggregator({"w"})}

Constraints ==
    {BinaryConstraint("EQ", Variable(v), r) : v \in {"x", "y"}, r \in RightHandSides}
        \cup {BinaryConstraint("EQ", Functor({"w"}), Variable("z")),
              BinaryConstraint("EQ", Functor({"z"}), Functor({"w"})),
              BinaryConstraint("NE", Variable("x"), Functor({})),
              BinaryConstraint("LT", Variable("y"), Variable("w"))}

RECURSIVE SubsetsUpTo(_, _)
SubsetsUpTo(S, n) ==
    IF n = 0 THEN {{}}
    ELSE LET smaller == SubsetsUpTo(S, n - 1)
         IN  smaller \cup {c \cup {e} : c \in smaller, e \in S}

Clauses == SubsetsUpTo(Constraints, MaxConstraints)

-----------------------------------------------------------------------------
(* AdornDatabaseTransformer: the worklist of adorned predicates *)

\* largest number of query relations transform seeds the worklist with
MaxSeeds == 2
\* largest number of body atoms adorned for one popped adornment
MaxBodyAtoms == 2
\* insertions of one pair into headAdornmentsToDo after which the model stops
\* inserting it
MaxInsertions == 2

\* AstQualifiedName of the relations of the program
RelationNames == {<<"p">>, <<"q">>}

\* the adornment markers of a relation: one of b, f per argument
AdornmentMarkers(relName) ==
    IF relName = <<"p">> THEN {"bb", "bf", "fb", "ff"} ELSE {"b", "f"}

\* the adorned_predicate values that can occur, in the order of
\* std::set<adorned_predicate>
AdornedPredicates ==
    <<  <<<<"p">>, "bb">>, <<<<"p">>, "bf">>, <<<<"p">>, "fb">>, <<<<"p">>, "ff">>,
        <<<<"q">>, "b">>, <<<<"q">>, "f">>  >>

AdornedPredicateSet == {AdornedPredicates[i] : i \in DOMAIN AdornedPredicates}

\* the markers transform starts from: all arguments free, or all bound for a
\* ground query
SeedMarkers(relName) ==
    IF relName = <<"p">> THEN {"ff", "bb"} ELSE {"f", "b"}

\* the state of a transformer that is not running
NoAdornment ==
    /\ headAdornmentsToDo = {}
    /\ headAdornmentsSeen = {}
    /\ adornPc = "idle"
    /\ callsLeft = 0
    /\ inserted = <<>>
    /\ popped = {}

\* AdornDatabaseTransformer::getAdornmentID: the relation name, with the
\* marker in braces appended as a further name component
getAdornmentID(relName, adornmentMarker) ==
    IF adornmentMarker = "" THEN relName
    ELSE Append(relName, "{" \o adornmentMarker \o "}")

\* queueAdornment that does not record the adornment in headAdornmentsSeen
queueAdornmentUnrecorded(relName, adornmentMarker) ==
    LET adornmentID == getAdornmentID(relName, adornmentMarker)
        pair == <<relName, adornmentMarker>>
    IN  IF adornmentID \notin headAdornmentsSeen
            THEN /\ inserted[pair] < MaxInsertions
                 /\ headAdornmentsToDo' = headAdornmentsToDo \cup {pair}
                 /\ headAdornmentsSeen' = headAdornmentsSeen
                 /\ inserted' = [inserted EXCEPT ![pair] = @ + 1]
            ELSE UNCHANGED <<headAdornmentsToDo, headAdornmentsSeen, inserted>>

\* AdornDatabaseTransformer::queueAdornment
queueAdornment(relName, adornmentMarker) ==
    LET adornmentID == getAdornmentID(relName, adornmentMarker)
        pair == <<relName, adornmentMarker>>
    IN  IF adornmentID \notin headAdornmentsSeen
            THEN /\ inserted[pair] < MaxInsertions
                 /\ headAdornmentsToDo' = headAdornmentsToDo \cup {pair}
                 /\ headAdornmentsSeen' = headAdornmentsSeen \cup {adornmentID}
                 /\ inserted' = [inserted EXCEPT ![pair] = @ + 1]
            ELSE UNCHANGED <<headAdornmentsToDo, headAdornmentsSeen, inserted>>

\* AdornDatabaseTransformer::hasAdornmentToProcess
hasAdornmentToProcess == headAdornmentsToDo # {}

\* *(headAdornmentsToDo.begin())
begin(toDo) ==
    AdornedPredicates[CHOOSE i \in DOMAIN AdornedPredicates :
                         /\ AdornedPredicates[i] \in toDo
                         /\ \A j \in 1..(i - 1) : AdornedPredicates[j] \notin toDo]

\* AdornDatabaseTransformer::nextAdornmentToProcess
nextAdornmentToProcess ==
    LET headAdornment == begin(headAdornmentsToDo)
    IN  /\ headAdornmentsToDo' = headAdornmentsToDo \ {headAdornment}
        /\ popped' = popped \cup {headAdornment}
        /\ UNCHANGED <<headAdornmentsSeen, inserted>>

-----------------------------------------------------------------------------
(* UniqueAggregationVariablesTransformer                                    *)
(* (src/ast/transform/UniqueAggregationVariables.cpp).                      *)
(* A program is a sequence of clauses.  A clause is given by the names of   *)
(* its Variable nodes outside every aggregator and by its Aggregator nodes  *)
(* in visiting order; an Aggregator by its target expression (a null        *)
(* pointer, or an expression with the names of the Variable nodes in it),   *)
(* the names of the Variable nodes of its body outside nested aggregators,  *)
(* and the Aggregator nodes nested in its body.                             *)

\* largest number of aggregators of one clause
MaxAggregators == 11
\* number of times the pass is applied to a program
MaxApplications == 2

TargetExpression(variables) == [kind |-> "Expression", variables |-> variables]

AstAggregator(target, body, nested) ==
    [targetExpression |-> target, body |-> body, aggregators |-> nested]

AstClause(variables, aggregators) ==
    [variables |-> variables, aggregators |-> aggregators]

\* the state of a transformer that is not running
NoAggregation ==
    /\ translationUnit = <<>>
    /\ prevUnit = <<>>
    /\ aggChanged = FALSE
    /\ aggApplications = 0

elements(seq) == {seq[i] : i \in DOMAIN seq}

\* agg.getTargetExpression() == nullptr
hasTargetExpression(agg) == agg.targetExpression.kind # "Null"

\* souffle::toString on an int: its decimal digits
toString(aggNumber) == ToString(aggNumber)

\* the argument of setName (line 50)
newName(name, aggNumber) == " " \o name \o toString(aggNumber)

\* the names collected from the target expression (lines 40-42)
targetNames(agg) ==
    IF hasTargetExpression(agg) THEN elements(agg.targetExpression.variables) ELSE {}

\* the rename callback (lines 45-52) on the Variable nodes of a list
renameList(variables, names, aggNumber) ==
    [i \in DOMAIN variables |->
        IF variables[i] \in names THEN newName(variables[i], aggNumber)
        ELSE variables[i]]

RECURSIVE variablesOf(_)
\* the names of the Variable nodes visitDepthFirst finds in an aggregator
variablesOf(agg) ==
    targetNames(agg) \cup elements(agg.body)
        \cup UNION {variablesOf(agg.aggregators[i]) : i \in DOMAIN agg.aggregators}

RECURSIVE renameVariables(_, _, _)
\* visitDepthFirst(agg, rename): every Variable node in the aggregator, its
\* target expression and its nested aggregators included (lines 45-52)
renameVariables(agg, names, aggNumber) ==
    AstAggregator(
        IF hasTargetExpression(agg)
        THEN TargetExpression(
                 renameList(agg.targetExpression.variables, names, aggNumber))
        ELSE agg.targetExpression,
        renameList(agg.body, names, aggNumber),
        [i \in DOMAIN agg.aggregators |->
            renameVariables(agg.aggregators[i], names, aggNumber)])

RECURSIVE visitAggregator(_, _, _)
RECURSIVE visitAggregators(_, _, _)

\* the lambda of lines 33-56 on one aggregator, after (post-order) the
\* aggregators nested in it: without a target expression it returns before
\* the counter is incremented
visitAggregator(agg, aggNumber, changed) ==
    LET below == visitAggregators(agg.aggregators, aggNumber, changed)
        self == [agg EXCEPT !.aggregators = below.nodes]
        names == targetNames(self)
    IN  IF ~hasTargetExpression(self)
        THEN [node |-> self, aggNumber |-> below.aggNumber,
              changed |-> below.changed]
        ELSE [node |-> renameVariables(self, names, below.aggNumber),
              aggNumber |-> below.aggNumber + 1,
              changed |-> below.changed \/ (variablesOf(self) \cap names # {})]

\* the aggregators of a list, in order, threading aggNumber and changed
visitAggregators(aggregators, aggNumber, changed) ==
    IF aggregators = <<>>
    THEN [nodes |-> <<>>, aggNumber |-> aggNumber, changed |-> changed]
    ELSE LET first == visitAggregator(Head(aggregators), aggNumber, changed)
             rest == visitAggregators(Tail(aggregators), first.aggNumber,
                                      first.changed)
         IN  [nodes |-> <<first.node>> \o rest.nodes,
              aggNumber |-> rest.aggNumber, changed |-> rest.changed]

RECURSIVE visitClauses(_, _, _)
\* visitDepthFirstPostOrder over the program: clause after clause (line 33)
visitClauses(clauses, aggNumber, changed) ==
    IF clauses = <<>>
    THEN [nodes |-> <<>>, aggNumber |-> aggNumber, changed |-> changed]
    ELSE LET first == visitAggregators(Head(clauses).aggregators, aggNumber,
                                        changed)
             rest == visitClauses(Tail(clauses), first.aggNumber, first.changed)
         IN  [nodes |-> <<AstClause(Head(clauses).variables, first.nodes)>>
                            \o rest.nodes,
              aggNumber |-> rest.aggNumber, changed |-> rest.changed]

\* UniqueAggregationVariablesTransformer::transform: the program after the
\* pass and the flag returned
transform(program) ==
    LET visited == visitClauses(program, 0, FALSE)
    IN  [program |-> visited.nodes, changed |-> visited.changed]

-----------------------------------------------------------------------------
(* BindingStore *)

EmptyDependencies == [v \in {} |-> {}]

\* BindingStore::addBindingDependency
addBindingDependency(deps, variable, dependency) ==
    [v \in DOMAIN deps \cup {variable} |->
        IF v = variable
            THEN (IF v \in DOMAIN deps THEN deps[v] ELSE {}) \cup {dependency}
            ELSE deps[v]]

RECURSIVE addRecordDependencies(_, _, _, _)
addRecordDependencies(deps, args, i, varName) ==
    IF i > Len(args) THEN deps
    ELSE addRecordDependencies(addBindingDependency(deps, args[i], {varName}),
                               args, i + 1, varName)

\* BindingStore::processEqualityBindings
processEqualityBindings(deps, lhs, rhs) ==
    IF lhs.kind # "Variable" THEN deps
    ELSE LET withRhs == addBindingDependency(deps, lhs.name, rhs.subVars)
         IN  IF rhs.kind = "RecordInit"
                 THEN addRecordDependencies(withRhs, rhs.args, 1, lhs.name)
                 ELSE withRhs

containsAggregators(bc) == bc.lhs.kind = "Aggregator" \/ bc.rhs.kind = "Aggregator"

\* the constraints generateBindingDependencies grabs
relevantConstraints(cl) == {bc \in cl : ~containsAggregators(bc) /\ bc.op = "EQ"}

RECURSIVE addConstraintDependencies(_, _)
addConstraintDependencies(deps, constraints) ==
    IF constraints = {} THEN deps
    ELSE LET bc == CHOOSE c \in constraints : TRUE
             one == processEqualityBindings(deps, bc.lhs, bc.rhs)
             two == processEqualityBindings(one, bc.rhs, bc.lhs)
         IN  addConstraintDependencies(two, constraints \ {bc})

\* BindingStore::generateBindingDependencies
generateBindingDependencies(cl) ==
    addConstraintDependencies(EmptyDependencies, relevantConstraints(cl))

\* reducePass without the `changed = true` of line 323: a pass that only
\* removes bound variables from dependency sets reports no change
reducePassUnflagged(bound, deps) ==
    LET unboundKeys == {headVar \in DOMAIN deps : headVar \notin bound}
        variablesToBind == {headVar \in unboundKeys : {} \in deps[headVar]}
        keptKeys == unboundKeys \ variablesToBind
    IN  [bound |-> bound \cup variablesToBind,
         deps |-> [headVar \in keptKeys |-> {dep \ bound : dep \in deps[headVar]}],
         changed |-> \/ \E headVar \in DOMAIN deps : headVar \in bound
                     \/ variablesToBind # {},
         nonEmpty |-> \A headVar \in unboundKeys : deps[headVar] # {}]

\* reducePass binding a variable only when all of its dependency sets are
\* satisfied instead of at least one
reducePassAllSets(bound, deps) ==
    LET unboundKeys == {headVar \in DOMAIN deps : headVar \notin bound}
        variablesToBind == {headVar \in unboundKeys : deps[headVar] = {{}}}
        keptKeys == unboundKeys \ variablesToBind
    IN  [bound |-> bound \cup variablesToBind,
         deps |-> [headVar \in keptKeys |-> {dep \ bound : dep \in deps[headVar]}],
         changed |-> \/ \E headVar \in DOMAIN deps : headVar \in bound
                     \/ variablesToBind # {}
                     \/ \E headVar \in keptKeys :
                            \E dep \in deps[headVar] : dep \cap bound # {},
         nonEmpty |-> \A headVar \in unboundKeys : deps[headVar] # {}]

\* reducePass without the `continue` of line 302: an already-bound key is
\* flagged as a change but its dependencies are kept
reducePassKeepsBoundKeys(bound, deps) ==
    LET unboundKeys == {headVar \in DOMAIN deps : headVar \notin bound}
        variablesToBind == {headVar \in DOMAIN deps : {} \in deps[headVar]}
        keptKeys == DOMAIN deps \ variablesToBind
    IN  [bound |-> bound \cup variablesToBind,
         deps |-> [headVar \in keptKeys |-> {dep \ bound : dep \in deps[headVar]}],
         changed |-> \/ \E headVar \in DOMAIN deps : headVar \in bound
                     \/ variablesToBind # {}
                     \/ \E headVar \in keptKeys :
                            \E dep \in deps[headVar] : dep \cap bound # {},
         nonEmpty |-> \A headVar \in unboundKeys : deps[headVar] # {}]

\* one execution of the body of reduceDependencies up to its recursive call:
\* the loop over bindingDependencies and the insertion of variablesToBind
reducePass(bound, deps) ==
    LET unboundKeys == {headVar \in DOMAIN deps : headVar \notin bound}
        variablesToBind == {headVar \in unboundKeys : {} \in deps[headVar]}
        keptKeys == unboundKeys \ variablesToBind
        newBindingDependencies ==
            [headVar \in keptKeys |-> {dep \ bound : dep \in deps[headVar]}]
        changed ==
            \/ \E headVar \in DOMAIN deps : headVar \in bound
            \/ variablesToBind # {}
            \/ \E headVar \in keptKeys : \E dep \in deps[headVar] : dep \cap bound # {}
    IN  [bound |-> bound \cup variablesToBind,
         deps |-> newBindingDependencies,
         changed |-> changed,
         nonEmpty |-> \A headVar \in unboundKeys : deps[headVar] # {}]

\* reduceDependencies without its recursive call: one pass over the store
reduceDependenciesOnce(bound, deps, fuel) ==
    LET pass == reducePass(bound, deps)
    IN  [bound |-> pass.bound,
         deps |-> IF pass.changed THEN pass.deps ELSE deps,
         changed |-> pass.changed, terminated |-> TRUE,
         assertOk |-> pass.nonEmpty]

\* BindingStore::reduceDependencies; fuel counts the recursion depth left
RECURSIVE reduceDependencies(_, _, _)
reduceDependencies(bound, deps, fuel) ==
    LET pass == reducePass(bound, deps)
    IN  IF fuel = 0
            THEN [bound |-> bound, deps |-> deps, changed |-> TRUE,
                  terminated |-> FALSE, assertOk |-> TRUE]
        ELSE IF pass.changed
            THEN LET rest == reduceDependencies(pass.bound, pass.deps, fuel - 1)
                 IN  [rest EXCEPT !.changed = TRUE,
                                  !.assertOk = rest.assertOk /\ pass.nonEmpty]
        ELSE [bound |-> pass.bound, deps |-> deps, changed |-> FALSE,
              terminated |-> TRUE,
              assertOk |-> pass.nonEmpty /\ deps = pass.deps]

\* BindingStore::isBound
isBound(varName) == varName \in boundVariables \/ varName \in boundHeadVariables

-----------------------------------------------------------------------------
(* Specification of one BindingStore *)

\* BindingStore::BindingStore
InitStore ==
    \E cl \in Clauses :
        LET r == reduceDependencies({}, generateBindingDependencies(cl), MaxPasses)
        IN  /\ clause = cl
            /\ boundVariables = r.bound
            /\ boundHeadVariables = {}
            /\ bindingDependencies = r.deps
            /\ explicitlyBound = {}
            /\ reduceTerminated = r.terminated
            /\ assertOk = r.assertOk
            /\ query = Null /\ prevQuery = Null /\ lastPass = "none" /\ passChanged = FALSE
            /\ NoAdornment
            /\ NoAggregation

\* BindingStore::bindVariable
bindVariable(varName) ==
    LET r == reduceDependencies(boundVariables \cup {varName}, bindingDependencies,
                                MaxPasses)
    IN  /\ boundVariables' = r.bound
        /\ bindingDependencies' = r.deps
        /\ explicitlyBound' = explicitlyBound \cup {varName}
        /\ reduceTerminated' = r.terminated
        /\ assertOk' = r.assertOk
        /\ UNCHANGED <<clause, boundHeadVariables, ramVars, adornVars, aggVars>>

\* bindHeadVariable that binds the variable the way bindVariable does as well
bindHeadVariablePropagating(varName) ==
    LET r == reduceDependencies(boundVariables \cup {varName}, bindingDependencies,
                                MaxPasses)
    IN  /\ boundHeadVariables' = boundHeadVariables \cup {varName}
        /\ boundVariables' = r.bound
        /\ bindingDependencies' = r.deps
        /\ reduceTerminated' = r.terminated
        /\ assertOk' = r.assertOk
        /\ UNCHANGED <<clause, explicitlyBound, ramVars, adornVars, aggVars>>

\* BindingStore::bindHeadVariable
bindHeadVariable(varName) ==
    /\ boundHeadVariables' = boundHeadVariables \cup {varName}
    /\ UNCHANGED <<clause, boundVariables, bindingDependencies, explicitlyBound,
                   reduceTerminated, assertOk, ramVars, adornVars, aggVars>>

NextStore ==
    \/ \E varName \in VarNames : bindVariable(varName)
    \/ \E varName \in HeadVarNames : bindHeadVariable(varName)

SpecStore == InitStore /\ [][NextStore]_vars

-----------------------------------------------------------------------------
(* Claims about the BindingStore *)

\* C1: after construction and after every bindVariable call, no key of
\* bindingDependencies is in boundVariables, no inner dependency set contains
\* a member of boundVariables, and no inner dependency set is empty.
C1_StoreReduced ==
    \A headVar \in DOMAIN bindingDependencies :
        /\ headVar \notin boundVariables
        /\ \A dep \in bindingDependencies[headVar] :
               dep # {} /\ dep \cap boundVariables = {}

\* a bindVariable call has shortened a seeded dependency set of a key that
\* is still waiting for other variables
C1_Witness ==
    /\ explicitlyBound # {}
    /\ \E headVar \in DOMAIN bindingDependencies :
           \E dep \in generateBindingDependencies(clause)[headVar] :
               /\ dep \cap boundVariables # {}
               /\ dep \ boundVariables \in bindingDependencies[headVar]

\* the dependency sets the aggregator-free EQ constraints of a clause give v:
\* the variables of the other side of `v = e`, and {u} for every record
\* `u = [.., v, ..]` that v is a direct argument of
SeededSets(cl, v) ==
    LET eqs == {bc \in cl : bc.op = "EQ" /\ bc.lhs.kind # "Aggregator"
                                       /\ bc.rhs.kind # "Aggregator"}
        sides == {<<bc.lhs, bc.rhs>> : bc \in eqs} \cup {<<bc.rhs, bc.lhs>> : bc \in eqs}
    IN  {p[2].subVars : p \in {q \in sides : q[1] = Variable(v)}}
            \cup {{p[1].name} : p \in {q \in sides :
                        /\ q[1].kind = "Variable"
                        /\ q[2].kind = "RecordInit"
                        /\ \E i \in DOMAIN q[2].args : q[2].args[i] = v}}

\* the least set containing B and every v one of whose seeded sets it contains
RECURSIVE LeastBound(_, _)
LeastBound(cl, B) ==
    LET more == B \cup {v \in VarNames : \E dep \in SeededSets(cl, v) : dep \subseteq B}
    IN  IF more = B THEN B ELSE LeastBound(cl, more)

ExampleClause ==
    {BinaryConstraint("EQ", Variable("x"), Functor({"y", "z"})),
     BinaryConstraint("EQ", Variable("y"), Functor({"w"}))}

\* C2: boundVariables is exactly the least set that contains the explicitly
\* bound variables and contains v whenever all variables of one of v's seeded
\* dependency sets are in it; for x = f(y,z), y = g(w): bind w gives
\* bound = {w,y} and deps[x] = {{z}}, then bind z gives bound = {w,y,z,x}.
C2_TransitiveBinding ==
    /\ boundVariables = LeastBound(clause, explicitlyBound)
    /\ (clause = ExampleClause /\ explicitlyBound = {"w"}) =>
           /\ boundVariables = {"w", "y"}
           /\ bindingDependencies = [v \in {"x"} |-> {{"z"}}]
    /\ (clause = ExampleClause /\ explicitlyBound = {"w", "z"}) =>
           boundVariables = {"w", "x", "y", "z"}

\* the example clause after bindVariable(w) and bindVariable(z)
C2_Witness ==
    /\ clause = ExampleClause
    /\ explicitlyBound = {"w", "z"}
    /\ "x" \in boundVariables

\* C3: every reduceDependencies call returns, its assertions hold, and it
\* ends in a fixed point: one more call returns false and changes neither
\* boundVariables nor bindingDependencies; from call to call boundVariables
\* only grows and the key set of bindingDependencies only shrinks.
C3_Convergence ==
    /\ [](LET again == reduceDependencies(boundVariables, bindingDependencies,
                                          MaxPasses)
          IN  /\ reduceTerminated
              /\ assertOk
              /\ again.terminated /\ again.assertOk
              /\ ~again.changed
              /\ again.bound = boundVariables
              /\ again.deps = bindingDependencies)
    /\ [][/\ boundVariables \subseteq boundVariables'
          /\ DOMAIN bindingDependencies' \subseteq DOMAIN bindingDependencies]_vars

\* a call that bound a variable transitively and left other keys waiting
C3_Witness ==
    /\ explicitlyBound # {}
    /\ boundVariables \ explicitlyBound # {}
    /\ DOMAIN bindingDependencies # {}
    /\ DOMAIN bindingDependencies # DOMAIN generateBindingDependencies(clause)

-----------------------------------------------------------------------------
(* RA-IR: expressions, conditions and operations *)

\* largest number of Filter operations in a translated query
MaxFilters == 2

Relations == {"R", "S"}

\* RamRelation::getArity
getArity(rel) == IF rel = "R" THEN 2 ELSE 1

Number(n) == [kind |-> "Number", value |-> n]
ElementAccess(i, c) == [kind |-> "ElementAccess", identifier |-> i, element |-> c]
IntrinsicOperator(as) == [kind |-> "IntrinsicOperator", args |-> as]
UserDefinedOperator(as) == [kind |-> "UserDefinedOperator", args |-> as]
PackRecord(as) == [kind |-> "PackRecord", args |-> as]

Constraint(op, l, r) == [kind |-> "Constraint", op |-> op, lhs |-> l, rhs |-> r]
Conjunction(l, r) == [kind |-> "Conjunction", lhs |-> l, rhs |-> r]
Negation(c) == [kind |-> "Negation", operand |-> c]
EmptinessCheck(rel) == [kind |-> "EmptinessCheck", relation |-> rel]
ExistenceCheck(rel, vs) == [kind |-> "ExistenceCheck", relation |-> rel, values |-> vs]

Filter(c, op) == [kind |-> "Filter", condition |-> c, operation |-> op]
Scan(rel, i, op) == [kind |-> "Scan", relation |-> rel, identifier |-> i,
                     operation |-> op]
IndexScan(rel, i, pattern, op) ==
    [kind |-> "IndexScan", relation |-> rel, identifier |-> i,
     pattern |-> pattern, operation |-> op]
UnpackRecord(i, level, pos, op) ==
    [kind |-> "UnpackRecord", identifier |-> i, referenceLevel |-> level,
     referencePos |-> pos, operation |-> op]
Project(vs) == [kind |-> "Project", values |-> vs]
Query(op) == [kind |-> "Query", operation |-> op]

Max(a, b) == IF a >= b THEN a ELSE b

RECURSIVE MaxLevel(_, _)
RECURSIVE getLevel(_)

\* the largest level among the non-null nodes of a sequence, -1 if none
MaxLevel(nodes, i) ==
    IF i > Len(nodes) THEN -1
    ELSE Max(IF nodes[i] = Null THEN -1 ELSE getLevel(nodes[i]), MaxLevel(nodes, i + 1))

\* RamExpressionLevelAnalysis / RamConditionLevelAnalysis ::getLevel
getLevel(node) ==
    CASE node.kind = "Number" -> -1
      [] node.kind = "ElementAccess" -> node.identifier
      [] node.kind \in {"IntrinsicOperator", "UserDefinedOperator", "PackRecord"} ->
            MaxLevel(node.args, 1)
      [] node.kind = "Constraint" -> Max(getLevel(node.lhs), getLevel(node.rhs))
      [] node.kind = "Conjunction" -> Max(getLevel(node.lhs), getLevel(node.rhs))
      [] node.kind = "Negation" -> getLevel(node.operand)
      [] node.kind = "EmptinessCheck" -> -1
      [] node.kind = "ExistenceCheck" -> MaxLevel(node.values, 1)

\* RamConstValueAnalysis::isConstant
RECURSIVE isConstant(_)
isConstant(expr) ==
    CASE expr.kind = "Number" -> TRUE
      [] expr.kind = "ElementAccess" -> FALSE
      [] expr.kind \in {"IntrinsicOperator", "UserDefinedOperator", "PackRecord"} ->
            \A i \in DOMAIN expr.args : isConstant(expr.args[i])

isNested(node) == node.kind \in {"Filter", "Scan", "IndexScan", "UnpackRecord"}
isSearch(node) == node.kind \in {"Scan", "IndexScan", "UnpackRecord"}
isRelationSearch(node) == node.kind \in {"Scan", "IndexScan"}

-----------------------------------------------------------------------------
(* LevelConditionsTransformer *)

\* addCondition replacing the conditions collected so far by the new one
addConditionOverwrite(condition, c) == c

\* the addCondition lambda of levelConditions
addCondition(condition, c) ==
    IF condition = Null THEN c ELSE Conjunction(condition, c)

\* the insertFilter lambda of levelConditions: wrap the operation below op
insertFilter(op, condition) ==
    [op EXCEPT !.operation = Filter(condition, op.operation)]

\* filterRewriter that returns the child of a removed Filter without having
\* applied itself to it
RECURSIVE filterRewriterShallow(_, _, _)
filterRewriterShallow(node, level, newCondition) ==
    IF node.kind = "Filter" /\ getLevel(node.condition) = level
        THEN [node |-> node.operation,
              newCondition |-> addCondition(newCondition, node.condition),
              changed |-> TRUE]
    ELSE IF isNested(node)
        THEN LET inner == filterRewriterShallow(node.operation, level, newCondition)
             IN  [node |-> [node EXCEPT !.operation = inner.node],
                  newCondition |-> inner.newCondition,
                  changed |-> inner.changed]
    ELSE [node |-> node, newCondition |-> newCondition, changed |-> FALSE]

\* the filterRewriter lambdas of levelConditions, applied to an operation:
\* Filters whose condition has the given level are removed and their
\* conditions collected, outermost first
RECURSIVE filterRewriter(_, _, _)
filterRewriter(node, level, newCondition) ==
    IF node.kind = "Filter" /\ getLevel(node.condition) = level
        THEN LET inner == filterRewriter(node.operation, level,
                                         addCondition(newCondition, node.condition))
             IN  [node |-> inner.node,
                  newCondition |-> inner.newCondition,
                  changed |-> TRUE]
    ELSE IF isNested(node)
        THEN LET inner == filterRewriter(node.operation, level, newCondition)
             IN  [node |-> [node EXCEPT !.operation = inner.node],
                  newCondition |-> inner.newCondition,
                  changed |-> inner.changed]
    ELSE [node |-> node, newCondition |-> newCondition, changed |-> FALSE]

\* the body of either visitor of levelConditions on one RamQuery / RamSearch
hoistInto(parent, level) ==
    LET swept == filterRewriter(parent.operation, level, Null)
        spliced == [parent EXCEPT !.operation = swept.node]
    IN  [node |-> IF swept.newCondition # Null
                      THEN insertFilter(spliced, swept.newCondition)
                      ELSE spliced,
         changed |-> swept.changed \/ swept.newCondition # Null]

\* the visitor over the RamSearch nodes collecting, for each search, the
\* Filters of the level of the next search further in
RECURSIVE hoistSearchesOutward(_)
hoistSearchesOutward(node) ==
    IF isSearch(node)
        THEN LET here == hoistInto(node, node.identifier + 1)
                 below == hoistSearchesOutward(here.node.operation)
             IN  [node |-> [here.node EXCEPT !.operation = below.node],
                  changed |-> here.changed \/ below.changed]
    ELSE IF isNested(node)
        THEN LET below == hoistSearchesOutward(node.operation)
             IN  [node |-> [node EXCEPT !.operation = below.node],
                  changed |-> below.changed]
    ELSE [node |-> node, changed |-> FALSE]

\* visitDepthFirst over the RamSearch nodes below node, outermost first
RECURSIVE hoistSearches(_)
hoistSearches(node) ==
    IF isSearch(node)
        THEN LET here == hoistInto(node, node.identifier)
                 below == hoistSearches(here.node.operation)
             IN  [node |-> [here.node EXCEPT !.operation = below.node],
                  changed |-> here.changed \/ below.changed]
    ELSE IF isNested(node)
        THEN LET below == hoistSearches(node.operation)
             IN  [node |-> [node EXCEPT !.operation = below.node],
                  changed |-> below.changed]
    ELSE [node |-> node, changed |-> FALSE]

\* LevelConditionsTransformer::levelConditions
levelConditions(q) ==
    LET outer == hoistInto(q, -1)
        searches == hoistSearches(outer.node.operation)
    IN  [program |-> [outer.node EXCEPT !.operation = searches.node],
         changed |-> outer.changed \/ searches.changed]

-----------------------------------------------------------------------------
(* CreateIndicesTransformer *)

\* getConditions enumerating the conjuncts of a left-leaning chain from the
\* left
RECURSIVE getConditionsLeftFirst(_)
getConditionsLeftFirst(condition) ==
    IF condition.kind = "Conjunction"
        THEN getConditionsLeftFirst(condition.lhs) \o <<condition.rhs>>
        ELSE <<condition>>

\* getConditions: the right operand of each Conjunction on the way down the
\* left operands, then the condition the descent ends in
RECURSIVE getConditions(_)
getConditions(condition) ==
    IF condition.kind = "Conjunction"
        THEN <<condition.rhs>> \o getConditions(condition.lhs)
        ELSE <<condition>>

IndexElement(c, v) == [kind |-> "IndexElement", element |-> c, value |-> v]

\* getIndexElement without its second branch (ElementAccess on the right)
getIndexElementLeftOnly(c, identifier) ==
    IF c.kind = "Constraint" /\ c.op = "EQ"
          /\ c.lhs.kind = "ElementAccess"
          /\ getLevel(c.lhs) = identifier
          /\ (isConstant(c.rhs) \/ getLevel(c.rhs) < identifier)
        THEN IndexElement(c.lhs.element, c.rhs)
        ELSE Null

\* CreateIndicesTransformer::getIndexElement
getIndexElement(c, identifier) ==
    IF c.kind = "Constraint" /\ c.op = "EQ"
        THEN IF /\ c.lhs.kind = "ElementAccess"
                /\ getLevel(c.lhs) = identifier
                /\ (isConstant(c.rhs) \/ getLevel(c.rhs) < identifier)
                 THEN IndexElement(c.lhs.element, c.rhs)
             ELSE IF /\ c.rhs.kind = "ElementAccess"
                     /\ getLevel(c.rhs) = identifier
                     /\ (isConstant(c.lhs) \/ getLevel(c.lhs) < identifier)
                 THEN IndexElement(c.rhs.element, c.lhs)
             ELSE Null
        ELSE Null

\* a query pattern sized for a binary relation whatever the relation is
emptyPatternBinary(rel) == [col \in 1..2 |-> Null]

\* std::vector<std::unique_ptr<RamExpression>> queryPattern(rel.getArity())
emptyPattern(rel) == [col \in 1..getArity(rel) |-> Null]

\* the addCondition lambda of rewriteScan putting the new conjunct in front
addResidualInFront(condition, c) ==
    IF condition # Null THEN Conjunction(c, condition) ELSE c

\* the addCondition lambda of rewriteScan
addResidual(condition, c) ==
    IF condition # Null THEN Conjunction(condition, c) ELSE c

\* the loop of rewriteScan dropping an equality whose column is already bound
RECURSIVE indexConditionsDropping(_, _, _, _)
indexConditionsDropping(conds, i, identifier, acc) ==
    IF i > Len(conds) THEN acc
    ELSE LET found == getIndexElement(conds[i], identifier)
             next ==
                 IF found # Null
                     THEN IF acc.queryPattern[found.element + 1] = Null
                              THEN [acc EXCEPT !.indexable = TRUE,
                                       !.queryPattern[found.element + 1] = found.value]
                              ELSE [acc EXCEPT !.indexable = TRUE]
                     ELSE [acc EXCEPT !.condition = addResidual(acc.condition, conds[i])]
         IN  indexConditionsDropping(conds, i + 1, identifier, next)

\* the loop of rewriteScan over getConditions(&filter->getCondition())
RECURSIVE indexConditions(_, _, _, _)
indexConditions(conds, i, identifier, acc) ==
    IF i > Len(conds) THEN acc
    ELSE LET found == getIndexElement(conds[i], identifier)
             next ==
                 IF found # Null
                     THEN IF acc.queryPattern[found.element + 1] = Null
                              THEN [acc EXCEPT !.indexable = TRUE,
                                       !.queryPattern[found.element + 1] = found.value]
                              ELSE [acc EXCEPT !.indexable = TRUE,
                                       !.condition = addResidual(acc.condition, conds[i])]
                     ELSE [acc EXCEPT !.condition = addResidual(acc.condition, conds[i])]
         IN  indexConditions(conds, i + 1, identifier, next)

\* CreateIndicesTransformer::rewriteScan; Null when the scan is kept
rewriteScan(scan) ==
    IF scan.operation.kind = "Filter"
        THEN LET filter == scan.operation
                 done == indexConditions(getConditions(filter.condition), 1,
                             scan.identifier,
                             [queryPattern |-> emptyPattern(scan.relation),
                              condition |-> Null,
                              indexable |-> FALSE])
             IN  IF done.indexable
                     THEN IndexScan(scan.relation, scan.identifier, done.queryPattern,
                              IF done.condition = Null
                                  THEN filter.operation
                                  ELSE Filter(done.condition, filter.operation))
                     ELSE Null
        ELSE Null

\* scanCapturer whose `modified` flag is lost on the way up from the children
RECURSIVE scanCapturerForgetful(_)
scanCapturerForgetful(node) ==
    LET op == IF node.kind = "Scan" THEN rewriteScan(node) ELSE Null
        current == IF op # Null THEN op ELSE node
    IN  IF isNested(current)
            THEN LET below == scanCapturerForgetful(current.operation)
                 IN  [node |-> [current EXCEPT !.operation = below.node],
                      modified |-> op # Null]
            ELSE [node |-> current, modified |-> op # Null]

\* RamScanCapturer::operator() of createIndices, applied to an operation
RECURSIVE scanCapturer(_)
scanCapturer(node) ==
    LET op == IF node.kind = "Scan" THEN rewriteScan(node) ELSE Null
        current == IF op # Null THEN op ELSE node
    IN  IF isNested(current)
            THEN LET below == scanCapturer(current.operation)
                 IN  [node |-> [current EXCEPT !.operation = below.node],
                      modified |-> op # Null \/ below.modified]
            ELSE [node |-> current, modified |-> op # Null]

\* CreateIndicesTransformer::createIndices on a program of one RamQuery
createIndices(q) ==
    LET scanUpdate == scanCapturer(q.operation)
    IN  [program |-> [q EXCEPT !.operation = scanUpdate.node],
         changed |-> scanUpdate.modified]

-----------------------------------------------------------------------------
(* ConvertExistenceChecksTransformer *)

\* RamScanCapturer::dependsOn(const RamExpression*, identifier): the worklist
\* over the arguments of intrinsic and user-defined operators
RECURSIVE dependsOn(_, _)
dependsOn(value, identifier) ==
    CASE value.kind = "ElementAccess" -> getLevel(value) = identifier
      [] value.kind \in {"IntrinsicOperator", "UserDefinedOperator"} ->
            \E i \in DOMAIN value.args : dependsOn(value.args[i], identifier)
      [] OTHER -> FALSE

\* visitDepthFirst over RamExpression: every expression node at or below
RECURSIVE expressionsOf(_)
RECURSIVE expressionsOfAll(_)
expressionsOfAll(nodes) ==
    UNION {IF nodes[i] = Null THEN {} ELSE expressionsOf(nodes[i]) : i \in DOMAIN nodes}

expressionsOf(node) ==
    CASE node.kind \in {"Number", "ElementAccess"} -> {node}
      [] node.kind \in {"IntrinsicOperator", "UserDefinedOperator", "PackRecord"} ->
            {node} \cup expressionsOfAll(node.args)
      [] node.kind \in {"Constraint", "Conjunction"} ->
            expressionsOf(node.lhs) \cup expressionsOf(node.rhs)
      [] node.kind = "Negation" -> expressionsOf(node.operand)
      [] node.kind = "EmptinessCheck" -> {}
      [] node.kind = "ExistenceCheck" -> expressionsOfAll(node.values)
      [] node.kind = "Filter" ->
            expressionsOf(node.condition) \cup expressionsOf(node.operation)
      [] node.kind \in {"Scan", "UnpackRecord"} -> expressionsOf(node.operation)
      [] node.kind = "IndexScan" ->
            expressionsOfAll(node.pattern) \cup expressionsOf(node.operation)
      [] node.kind = "Project" -> expressionsOfAll(node.values)

\* visitDepthFirst over RamProject / RamUnpackRecord: the nodes of one kind at
\* or below an operation
RECURSIVE operationsOf(_, _)
operationsOf(node, kind) ==
    (IF node.kind = kind THEN {node} ELSE {})
        \cup (IF isNested(node) THEN operationsOf(node.operation, kind) ELSE {})

\* the loop over the values of one RamProject: records and intrinsic
\* operators are opened, any other value must be constant or of another level
RECURSIVE valuesIndependent(_, _)
valuesIndependent(values, identifier) ==
    IF values = <<>> THEN TRUE
    ELSE LET value == values[Len(values)]
             rest == SubSeq(values, 1, Len(values) - 1)
         IN  IF value.kind \in {"PackRecord", "IntrinsicOperator"}
                 THEN valuesIndependent(rest \o value.args, identifier)
             ELSE IF value # Null /\ ~isConstant(value) /\ getLevel(value) = identifier
                 THEN FALSE
             ELSE valuesIndependent(rest, identifier)

\* isExistCheck without its third visitor (over all expressions of the body)
isExistCheckProjectsOnly(scan) ==
    /\ \A project \in operationsOf(scan.operation, "Project") :
           valuesIndependent(project.values, scan.identifier)
    /\ \A lookup \in operationsOf(scan.operation, "UnpackRecord") :
           lookup.referenceLevel # scan.identifier

\* the flag isExistCheck after the three visitors over the body of a search
isExistCheck(scan) ==
    /\ \A project \in operationsOf(scan.operation, "Project") :
           valuesIndependent(project.values, scan.identifier)
    /\ \A lookup \in operationsOf(scan.operation, "UnpackRecord") :
           lookup.referenceLevel # scan.identifier
    /\ \A expression \in expressionsOf(scan.operation) :
           ~dependsOn(expression, scan.identifier)

\* existenceConstraint testing a Scan's relation for emptiness, without the
\* RamNegation around the check
existenceConstraintUnnegated(scan) ==
    IF scan.kind = "Scan"
        THEN EmptinessCheck(scan.relation)
        ELSE ExistenceCheck(scan.relation, scan.pattern)

\* existenceConstraint that tests an IndexScan's relation for emptiness like
\* a Scan's, leaving the range pattern behind
existenceConstraintWithoutPattern(scan) == Negation(EmptinessCheck(scan.relation))

\* the constraint built for a convertible search
existenceConstraint(scan) ==
    IF scan.kind = "Scan"
        THEN Negation(EmptinessCheck(scan.relation))
        ELSE ExistenceCheck(scan.relation, scan.pattern)

\* RamScanCapturer::operator() of convertExistenceChecks, applied to an
\* operation
RECURSIVE existenceScanCapturer(_)
existenceScanCapturer(node) ==
    LET convert == isRelationSearch(node) /\ isExistCheck(node)
        current == IF convert
                       THEN Filter(existenceConstraint(node), node.operation)
                       ELSE node
    IN  IF isNested(current)
            THEN LET below == existenceScanCapturer(current.operation)
                 IN  [node |-> [current EXCEPT !.operation = below.node],
                      modified |-> convert \/ below.modified]
            ELSE [node |-> current, modified |-> convert]

\* ConvertExistenceChecksTransformer::convertExistenceChecks on a program of
\* one RamQuery
convertExistenceChecks(q) ==
    LET scanUpdate == existenceScanCapturer(q.operation)
    IN  [program |-> [q EXCEPT !.operation = scanUpdate.node],
         changed |-> scanUpdate.modified]

-----------------------------------------------------------------------------
(* Translated queries: Filters, one conjunct each, around up to two Scans    *)

N7 == Number(7)
N9 == Number(9)
A00 == ElementAccess(0, 0)
A01 == ElementAccess(0, 1)
A10 == ElementAccess(1, 0)

Conditions ==
    {Constraint("EQ", N7, N7), Constraint("EQ", N7, N9),
     Constraint("EQ", A00, N7), Constraint("EQ", A00, N9),
     Constraint("EQ", N9, A01), Constraint("EQ", A00, A01),
     Constraint("NE", A00, N7),
     Constraint("EQ", IntrinsicOperator(<<A00, N7>>), Number(14)),
     Constraint("EQ", A10, A00), Constraint("EQ", A01, A10),
     Constraint("EQ", A10, N7), Constraint("NE", A10, A00),
     Conjunction(Constraint("EQ", A00, N7),
                 Conjunction(Constraint("EQ", A00, N9), Constraint("NE", A00, N7))),
     Conjunction(Conjunction(Constraint("EQ", N9, A01), Constraint("EQ", A00, N9)),
                 Constraint("EQ", A00, N7))}

ProjectValues == {<<N7>>, <<A00>>, <<A10, A00>>}

SearchedRelations == {<<"R">>, <<"S">>, <<"R", "S">>, <<"R", "R">>}

\* every ElementAccess(i, c) below node lies under a search with identifier i
\* over a relation with more than c columns
RECURSIVE wellScoped(_, _)
RECURSIVE wellScopedAll(_, _, _)
wellScopedAll(nodes, rels, i) ==
    IF i > Len(nodes) THEN TRUE
    ELSE wellScoped(nodes[i], rels) /\ wellScopedAll(nodes, rels, i + 1)

wellScoped(node, rels) ==
    CASE node.kind = "Number" -> TRUE
      [] node.kind = "Null" -> TRUE
      [] node.kind = "ElementAccess" ->
            /\ node.identifier + 1 \in DOMAIN rels
            /\ node.element < getArity(rels[node.identifier + 1])
      [] node.kind = "IntrinsicOperator" -> wellScopedAll(node.args, rels, 1)
      [] node.kind \in {"Constraint", "Conjunction"} ->
            wellScoped(node.lhs, rels) /\ wellScoped(node.rhs, rels)

\* the filters [slot, condition] a query over rels may hold, where slot d lies
\* directly above the operation of nesting depth d
SlottedConditions(rels) ==
    UNION {{[slot |-> d, condition |-> c] :
               c \in {x \in Conditions : wellScoped(x, SubSeq(rels, 1, d))}} :
           d \in 0..Len(rels)}

\* the operation nest of depth d and below
RECURSIVE BuildOperation(_, _, _, _)
BuildOperation(rels, filters, values, d) ==
    IF filters # <<>> /\ Head(filters).slot = d
        THEN Filter(Head(filters).condition,
                    BuildOperation(rels, Tail(filters), values, d))
    ELSE IF d < Len(rels)
        THEN Scan(rels[d + 1], d, BuildOperation(rels, filters, values, d + 1))
    ELSE Project(values)

\* the query is a translated query: up to MaxFilters Filters, outermost first
TranslatedQuery(q) ==
    \E rels \in SearchedRelations, values \in ProjectValues, n \in 0..MaxFilters :
        \E filters \in [1..n -> SlottedConditions(rels)] :
            /\ wellScopedAll(values, rels, 1)
            /\ \A i \in 1..(n - 1) : filters[i].slot <= filters[i + 1].slot
            /\ q = Query(BuildOperation(rels, filters, values, 0))

-----------------------------------------------------------------------------
(* Specification of the RAM passes on one query *)

InitRam ==
    /\ TranslatedQuery(query)
    /\ prevQuery = Null
    /\ lastPass = "none"
    /\ passChanged = FALSE
    /\ clause = {} /\ boundVariables = {} /\ boundHeadVariables = {}
    /\ bindingDependencies = EmptyDependencies /\ explicitlyBound = {}
    /\ reduceTerminated = TRUE /\ assertOk = TRUE
    /\ NoAdornment
    /\ NoAggregation

\* LevelConditionsTransformer::transform
LevelConditions ==
    LET r == levelConditions(query)
    IN  /\ query' = r.program
        /\ prevQuery' = query
        /\ lastPass' = "LevelConditions"
        /\ passChanged' = r.changed
        /\ UNCHANGED <<storeVars, adornVars, aggVars>>

\* CreateIndicesTransformer::transform
CreateIndices ==
    LET r == createIndices(query)
    IN  /\ query' = r.program
        /\ prevQuery' = query
        /\ lastPass' = "CreateIndices"
        /\ passChanged' = r.changed
        /\ UNCHANGED <<storeVars, adornVars, aggVars>>

NextRam == LevelConditions \/ CreateIndices

SpecRam == InitRam /\ [][NextRam]_vars

-----------------------------------------------------------------------------
(* Specification of the three RAM passes on one query whose searches are    *)
(* Scans and UnpackRecords and whose Project may pack records and call      *)
(* user-defined operators                                                   *)

A20 == ElementAccess(2, 0)

ScanOf(rel) == [kind |-> "Scan", relation |-> rel]
UnpackOf(level, pos) ==
    [kind |-> "UnpackRecord", referenceLevel |-> level, referencePos |-> pos]

\* the searches of a nest, outermost first; the identifier is the depth
SearchNests ==
    {<<ScanOf("R")>>, <<ScanOf("S")>>,
     <<ScanOf("R"), ScanOf("S")>>, <<ScanOf("S"), ScanOf("R")>>,
     <<ScanOf("R"), UnpackOf(0, 1)>>,
     <<ScanOf("R"), ScanOf("S"), UnpackOf(0, 0)>>}

\* the number of columns of the tuple a search binds
searchArity(search) == IF search.kind = "Scan" THEN getArity(search.relation) ELSE 2

NestConditions ==
    {Constraint("EQ", N7, N7),
     Constraint("EQ", A00, N7), Constraint("EQ", N9, A01), Constraint("NE", A00, N7),
     Constraint("EQ", A10, A00), Constraint("EQ", A10, N7), Constraint("NE", A10, N9),
     Conjunction(Constraint("EQ", A00, N7), Constraint("EQ", N9, A01))}

NestValues ==
    {<<N7>>, <<A00>>, <<A10>>, <<A10, A00>>, <<A20, N7>>,
     <<PackRecord(<<A00, N7>>)>>,
     <<IntrinsicOperator(<<A10, N7>>)>>,
     <<UserDefinedOperator(<<A00, A10>>)>>,
     <<PackRecord(<<N9, UserDefinedOperator(<<A10>>)>>)>>}

\* every ElementAccess(i, c) at or below node has one of the searches as its
\* search i, and c is a column of the tuple that search binds
scoped(node, searches) ==
    \A e \in expressionsOf(node) :
        e.kind = "ElementAccess" =>
            /\ e.identifier + 1 \in DOMAIN searches
            /\ e.element < searchArity(searches[e.identifier + 1])

\* the filters [slot, condition] a nest may hold, slot d directly above the
\* operation of nesting depth d
SlottedNestConditions(searches) ==
    UNION {{[slot |-> d, condition |-> c] :
               c \in {x \in NestConditions : scoped(x, SubSeq(searches, 1, d))}} :
           d \in 0..Len(searches)}

\* the operation nest of depth d and below
RECURSIVE BuildNest(_, _, _, _)
BuildNest(searches, filters, values, d) ==
    IF filters # <<>> /\ Head(filters).slot = d
        THEN Filter(Head(filters).condition,
                    BuildNest(searches, Tail(filters), values, d))
    ELSE IF d < Len(searches)
        THEN LET below == BuildNest(searches, filters, values, d + 1)
                 search == searches[d + 1]
             IN  IF search.kind = "Scan"
                     THEN Scan(search.relation, d, below)
                     ELSE UnpackRecord(d, search.referenceLevel,
                                       search.referencePos, below)
    ELSE Project(values)

\* the query is a translated query over one of the nests
TranslatedNest(q) ==
    \E searches \in SearchNests, values \in NestValues, n \in 0..MaxFilters :
        \E filters \in [1..n -> SlottedNestConditions(searches)] :
            /\ scoped(Project(values), searches)
            /\ \A i \in 1..(n - 1) : filters[i].slot <= filters[i + 1].slot
            /\ q = Query(BuildNest(searches, filters, values, 0))

InitExist ==
    /\ TranslatedNest(query)
    /\ prevQuery = Null
    /\ lastPass = "none"
    /\ passChanged = FALSE
    /\ clause = {} /\ boundVariables = {} /\ boundHeadVariables = {}
    /\ bindingDependencies = EmptyDependencies /\ explicitlyBound = {}
    /\ reduceTerminated = TRUE /\ assertOk = TRUE
    /\ NoAdornment
    /\ NoAggregation

\* ConvertExistenceChecksTransformer::transform
ConvertExistenceChecks ==
    LET r == convertExistenceChecks(query)
    IN  /\ query' = r.program
        /\ prevQuery' = query
        /\ lastPass' = "ConvertExistenceChecks"
        /\ passChanged' = r.changed
        /\ UNCHANGED <<storeVars, adornVars, aggVars>>

NextExist == LevelConditions \/ CreateIndices \/ ConvertExistenceChecks

SpecExist == InitExist /\ [][NextExist]_vars

-----------------------------------------------------------------------------
(* Specification of one run of AdornDatabaseTransformer::transform: the     *)
(* worklist is seeded with the query relations, then adornments are popped  *)
(* and the adornments of the body atoms of their clauses queued, until the  *)
(* worklist is empty                                                        *)

InitAdorn ==
    /\ headAdornmentsToDo = {}
    /\ headAdornmentsSeen = {}
    /\ adornPc = "seed"
    /\ callsLeft \in 1..MaxSeeds
    /\ inserted = [pair \in AdornedPredicateSet |-> 0]
    /\ popped = {}
    /\ clause = {} /\ boundVariables = {} /\ boundHeadVariables = {}
    /\ bindingDependencies = EmptyDependencies /\ explicitlyBound = {}
    /\ reduceTerminated = TRUE /\ assertOk = TRUE
    /\ query = Null /\ prevQuery = Null /\ lastPass = "none" /\ passChanged = FALSE
    /\ NoAggregation

\* transform queues the adornment of a query relation
SeedQuery ==
    /\ adornPc = "seed" /\ callsLeft > 0
    /\ \E relName \in RelationNames :
           \E adornmentMarker \in SeedMarkers(relName) :
               queueAdornment(relName, adornmentMarker)
    /\ callsLeft' = callsLeft - 1
    /\ UNCHANGED <<adornPc, popped, storeVars, ramVars, aggVars>>

\* transform enters its loop
StartLoop ==
    /\ adornPc = "seed" /\ callsLeft = 0
    /\ adornPc' = "loop"
    /\ UNCHANGED <<headAdornmentsToDo, headAdornmentsSeen, callsLeft, inserted,
                   popped, storeVars, ramVars, aggVars>>

\* while (hasAdornmentToProcess()): pop the next adornment; its clauses have
\* up to MaxBodyAtoms body atoms to adorn
PopAdornment ==
    /\ adornPc = "loop" /\ hasAdornmentToProcess
    /\ nextAdornmentToProcess
    /\ adornPc' = "adorn"
    /\ callsLeft' \in 0..MaxBodyAtoms
    /\ UNCHANGED <<storeVars, ramVars, aggVars>>

\* the adornment of one body atom of a clause of the popped relation is queued
AdornBodyAtom ==
    /\ adornPc = "adorn" /\ callsLeft > 0
    /\ \E relName \in RelationNames :
           \E adornmentMarker \in AdornmentMarkers(relName) :
               queueAdornment(relName, adornmentMarker)
    /\ callsLeft' = callsLeft - 1
    /\ UNCHANGED <<adornPc, popped, storeVars, ramVars, aggVars>>

\* all clauses of the popped relation are adorned
EndClauses ==
    /\ adornPc = "adorn" /\ callsLeft = 0
    /\ adornPc' = "loop"
    /\ UNCHANGED <<headAdornmentsToDo, headAdornmentsSeen, callsLeft, inserted,
                   popped, storeVars, ramVars, aggVars>>

\* the loop ends on an empty worklist
FinishAdorn ==
    /\ adornPc = "loop" /\ ~hasAdornmentToProcess
    /\ adornPc' = "done"
    /\ UNCHANGED <<headAdornmentsToDo, headAdornmentsSeen, callsLeft, inserted,
                   popped, storeVars, ramVars, aggVars>>

NextAdorn ==
    \/ SeedQuery \/ StartLoop \/ PopAdornment \/ AdornBodyAtom \/ EndClauses
    \/ FinishAdorn

\* transform runs to its end: no step of the loop is postponed for ever
SpecAdorn == InitAdorn /\ [][NextAdorn]_vars /\ WF_vars(NextAdorn)

-----------------------------------------------------------------------------
(* Specification of UniqueAggregationVariables applied to one parsed         *)
(* program, and applied again to its own output.  The parser produces no     *)
(* variable name with a leading space.                                       *)

\* count : { a(x) }
CountAggregator == AstAggregator(Null, <<"x">>, <<>>)
\* sum x : { a(x, y) }
SumX == AstAggregator(TargetExpression(<<"x">>), <<"x", "y">>, <<>>)
\* sum x1 : { a(x1) }
SumX1 == AstAggregator(TargetExpression(<<"x1">>), <<"x1">>, <<>>)
\* sum 1 : { a(x) }
SumOne == AstAggregator(TargetExpression(<<>>), <<"x">>, <<>>)
\* max y : { a(y), y = sum x : { b(x, y) } }
MaxNested == AstAggregator(TargetExpression(<<"y">>), <<"y", "y">>, <<SumX>>)

AggregatorShapes == {CountAggregator, SumX, SumX1, SumOne, MaxNested}

ClauseVariables == {<<>>, <<"x">>, <<"x1", "y">>}

RECURSIVE repeat(_, _)
repeat(agg, n) == IF n = 0 THEN <<>> ELSE <<agg>> \o repeat(agg, n - 1)

\* the aggregators of a clause: none, one, or a first and a last one around
\* copies of a third
AggregatorLists ==
    {<<>>} \cup {<<agg>> : agg \in AggregatorShapes}
        \cup {<<first>> \o repeat(middle, n) \o <<last>> :
                  first \in AggregatorShapes, middle \in AggregatorShapes,
                  last \in AggregatorShapes, n \in 0..(MaxAggregators - 2)}

\* clauses of the program before the clause looked at
PrecedingClauses == {<<>>, <<AstClause(<<"x">>, <<SumX>>)>>}

ParsedPrograms ==
    {preceding \o <<AstClause(variables, aggregators)>> :
         preceding \in PrecedingClauses, variables \in ClauseVariables,
         aggregators \in AggregatorLists}

InitAgg ==
    /\ translationUnit \in ParsedPrograms
    /\ prevUnit = translationUnit
    /\ aggChanged = FALSE
    /\ aggApplications = 0
    /\ clause = {} /\ boundVariables = {} /\ boundHeadVariables = {}
    /\ bindingDependencies = EmptyDependencies /\ explicitlyBound = {}
    /\ reduceTerminated = TRUE /\ assertOk = TRUE
    /\ query = Null /\ prevQuery = Null /\ lastPass = "none" /\ passChanged = FALSE
    /\ NoAdornment

\* one application of the pass to the program
UniqueAggregationVariables ==
    /\ aggApplications < MaxApplications
    /\ LET result == transform(translationUnit)
       IN  /\ translationUnit' = result.program
           /\ aggChanged' = result.changed
    /\ prevUnit' = translationUnit
    /\ aggApplications' = aggApplications + 1
    /\ UNCHANGED <<storeVars, ramVars, adornVars>>

NextAgg == UniqueAggregationVariables

SpecAgg == InitAgg /\ [][NextAgg]_vars

-----------------------------------------------------------------------------
(* Reference semantics of a query: the tuples it projects *)

Values == {7, 9}

\* every contents of the relations R (binary) and S (unary) over Values
Databases == [R : SUBSET (Values \X Values), S : SUBSET {<<v>> : v \in Values}]

EmptyEnvironment == [i \in {} |-> <<>>]

RECURSIVE EvalExpression(_, _)
RECURSIVE SumOf(_, _, _)
SumOf(exprs, i, env) ==
    IF i > Len(exprs) THEN 0
    ELSE EvalExpression(exprs[i], env) + SumOf(exprs, i + 1, env)

\* the value of an expression; env maps a search identifier to its tuple
EvalExpression(expr, env) ==
    CASE expr.kind = "Number" -> expr.value
      [] expr.kind = "ElementAccess" -> env[expr.identifier][expr.element + 1]
      [] expr.kind = "IntrinsicOperator" -> SumOf(expr.args, 1, env)
      [] expr.kind = "UserDefinedOperator" -> 1 + SumOf(expr.args, 1, env)
      [] expr.kind = "PackRecord" ->
            [i \in DOMAIN expr.args |-> EvalExpression(expr.args[i], env)]

\* a tuple agrees with the bound columns of a query pattern
MatchesPattern(pattern, tuple, env) ==
    \A col \in DOMAIN pattern :
        pattern[col] = Null \/ EvalExpression(pattern[col], env) = tuple[col]

RECURSIVE EvalCondition(_, _, _)
EvalCondition(cond, env, db) ==
    CASE cond.kind = "Conjunction" ->
            EvalCondition(cond.lhs, env, db) /\ EvalCondition(cond.rhs, env, db)
      [] cond.kind = "Constraint" /\ cond.op = "EQ" ->
            EvalExpression(cond.lhs, env) = EvalExpression(cond.rhs, env)
      [] cond.kind = "Constraint" /\ cond.op = "NE" ->
            EvalExpression(cond.lhs, env) # EvalExpression(cond.rhs, env)
      [] cond.kind = "Negation" -> ~EvalCondition(cond.operand, env, db)
      [] cond.kind = "EmptinessCheck" -> db[cond.relation] = {}
      [] cond.kind = "ExistenceCheck" ->
            \E tuple \in db[cond.relation] : MatchesPattern(cond.values, tuple, env)

\* the record a reference stands for: 7 is the record [9, 7], 9 is nil
unpack(ref) == IF ref = 7 THEN <<9, 7>> ELSE Null

Bind(env, i, tuple) ==
    [j \in DOMAIN env \cup {i} |-> IF j = i THEN tuple ELSE env[j]]

RECURSIVE EvalOperation(_, _, _)
EvalOperation(op, env, db) ==
    CASE op.kind = "Project" ->
            {[i \in DOMAIN op.values |-> EvalExpression(op.values[i], env)]}
      [] op.kind = "Filter" ->
            IF EvalCondition(op.condition, env, db)
                THEN EvalOperation(op.operation, env, db)
                ELSE {}
      [] op.kind = "Scan" ->
            UNION {EvalOperation(op.operation, Bind(env, op.identifier, t), db) :
                      t \in db[op.relation]}
      [] op.kind = "IndexScan" ->
            UNION {EvalOperation(op.operation, Bind(env, op.identifier, t), db) :
                      t \in {u \in db[op.relation] : MatchesPattern(op.pattern, u, env)}}
      [] op.kind = "UnpackRecord" ->
            LET record == unpack(env[op.referenceLevel][op.referencePos + 1])
            IN  IF record = Null THEN {}
                ELSE EvalOperation(op.operation, Bind(env, op.identifier, record), db)

EvalQuery(q, db) == EvalOperation(q.operation, EmptyEnvironment, db)

-----------------------------------------------------------------------------
(* Tree observations used by the claims about the RAM passes *)

SearchIdentifiers == {0, 1}

\* the search with the given identifier at or below node, Null if none
RECURSIVE FindSearch(_, _)
FindSearch(node, id) ==
    IF isSearch(node) /\ node.identifier = id THEN node
    ELSE IF isNested(node) THEN FindSearch(node.operation, id)
    ELSE Null

\* the atomic conjuncts of a condition, left to right
RECURSIVE InOrder(_)
InOrder(cond) ==
    IF cond.kind = "Conjunction" THEN InOrder(cond.lhs) \o InOrder(cond.rhs)
    ELSE <<cond>>

RECURSIVE BagOfSeq(_)
BagOfSeq(seq) ==
    IF seq = <<>> THEN EmptyBag ELSE SetToBag({Head(seq)}) (+) BagOfSeq(Tail(seq))

\* the atomic conjuncts of all Filters at or below node
RECURSIVE FilterAtoms(_)
FilterAtoms(node) ==
    IF node.kind = "Filter"
        THEN BagOfSeq(InOrder(node.condition)) (+) FilterAtoms(node.operation)
    ELSE IF isNested(node) THEN FilterAtoms(node.operation)
    ELSE EmptyBag

\* the operation nest without its Filters
RECURSIVE Skeleton(_)
Skeleton(node) ==
    IF node.kind = "Filter" THEN Skeleton(node.operation)
    ELSE IF isNested(node) THEN [node EXCEPT !.operation = Skeleton(node.operation)]
    ELSE node

\* no Filter at or below node holds a Conjunction
RECURSIVE Verbose(_)
Verbose(node) ==
    IF ~isNested(node) THEN TRUE
    ELSE /\ node.kind = "Filter" => node.condition.kind # "Conjunction"
         /\ Verbose(node.operation)

\* every Filter at or below node (the child of parent) is the child of the
\* Query when its condition has level -1 and the child of the search with
\* identifier i when its condition has level i
RECURSIVE FiltersPlaced(_, _)
FiltersPlaced(node, parent) ==
    IF ~isNested(node) THEN TRUE
    ELSE /\ node.kind = "Filter" =>
                LET level == getLevel(node.condition)
                IN  IF level = -1 THEN parent.kind = "Query"
                    ELSE isSearch(parent) /\ parent.identifier = level
         /\ FiltersPlaced(node.operation, node)

-----------------------------------------------------------------------------
(* Claims about LevelConditions *)

\* C4: after LevelConditions on a query whose Filters hold one conjunct each,
\* every Filter with a condition of level -1 is the Filter directly under the
\* Query, and every Filter with a condition of level i >= 0 is the direct
\* child of the search with identifier i.
C4_LevelMonotonicity ==
    (lastPass = "LevelConditions" /\ Verbose(prevQuery.operation)) =>
        FiltersPlaced(query.operation, query)

\* a verbose query with a Filter that sat too deep, now with a Filter under
\* the Query and a Filter under a search
C4_Witness ==
    /\ lastPass = "LevelConditions"
    /\ Verbose(prevQuery.operation)
    /\ ~FiltersPlaced(prevQuery.operation, prevQuery)
    /\ query.operation.kind = "Filter"
    /\ \E id \in SearchIdentifiers :
           LET search == FindSearch(query.operation, id)
           IN  search # Null /\ search.operation.kind = "Filter"

\* C5: applying LevelConditions to the output of a LevelConditions application
\* returns changed = false and leaves the tree structurally equal.
C5_Idempotent ==
    [][(lastPass = "LevelConditions" /\ lastPass' = "LevelConditions") =>
          (passChanged' = FALSE /\ query' = query)]_vars

\* C6: LevelConditions preserves the tuples the query projects for every
\* contents of the relations, loses and duplicates no conjunct, and keeps the
\* nesting of the searches and the Project.
C6_LevelPreservesSemantics ==
    lastPass = "LevelConditions" =>
        /\ \A db \in Databases : EvalQuery(prevQuery, db) = EvalQuery(query, db)
        /\ FilterAtoms(prevQuery.operation) = FilterAtoms(query.operation)
        /\ Skeleton(prevQuery.operation) = Skeleton(query.operation)

\* a pass that moved a Filter of a query whose Filters decide its result
C6_Witness ==
    /\ lastPass = "LevelConditions"
    /\ query # prevQuery
    /\ \E db \in Databases :
           /\ EvalQuery(query, db) # {}
           /\ EvalQuery(query, db) # EvalOperation(Skeleton(query.operation),
                                                   EmptyEnvironment, db)

-----------------------------------------------------------------------------
(* Claims about CreateIndices *)

RECURSIVE HasElementAccess(_)
HasElementAccess(expr) ==
    CASE expr.kind = "ElementAccess" -> TRUE
      [] expr.kind = "Number" -> FALSE
      [] expr.kind \in {"IntrinsicOperator", "UserDefinedOperator", "PackRecord"} ->
            \E i \in DOMAIN expr.args : HasElementAccess(expr.args[i])

\* the sides of an equality that are ElementAccess(i, _) while the other side
\* is a constant or has a level below i
BindingSides(c, i) ==
    {side \in {"lhs", "rhs"} :
        LET this == c[side]
            other == c[IF side = "lhs" THEN "rhs" ELSE "lhs"]
        IN  /\ this.kind = "ElementAccess"
            /\ this.identifier = i
            /\ (~HasElementAccess(other) \/ getLevel(other) < i)}

\* the per-conjunct rule of index creation
Indexable(c, i) == c.kind = "Constraint" /\ c.op = "EQ" /\ BindingSides(c, i) # {}
BoundColumn(c, i) == c[CHOOSE side \in BindingSides(c, i) : TRUE].element
OtherSide(c, i) ==
    c[IF (CHOOSE side \in BindingSides(c, i) : TRUE) = "lhs" THEN "rhs" ELSE "lhs"]

\* a Scan of the query handed to the pass whose child is a Filter
FilteredScan(id) ==
    LET scan == FindSearch(prevQuery.operation, id)
    IN  scan # Null /\ scan.kind = "Scan" /\ scan.operation.kind = "Filter"

ScanBefore(id) == FindSearch(prevQuery.operation, id)
SearchAfter(id) == FindSearch(query.operation, id)
Range(seq) == {seq[i] : i \in DOMAIN seq}

\* C7: a conjunct of the immediate Filter of a Scan with identifier i yields a
\* pattern value iff it is an EQ Constraint with ElementAccess(i, c) on either
\* side and a constant or an expression of level < i on the other; column c
\* then takes the other side. Equalities between two columns of the scan,
\* non-EQ constraints and non-Constraint conditions yield none.
C7_PerConjunctRule ==
    lastPass = "CreateIndices" =>
        \A id \in SearchIdentifiers :
            FilteredScan(id) =>
                LET conjuncts == Range(getConditions(ScanBefore(id).operation.condition))
                    after == SearchAfter(id)
                IN  /\ \A c \in conjuncts :
                           /\ (getIndexElement(c, id) # Null) <=> Indexable(c, id)
                           /\ Indexable(c, id) =>
                                  /\ getIndexElement(c, id).element = BoundColumn(c, id)
                                  /\ getIndexElement(c, id).value = OtherSide(c, id)
                                  /\ after.kind = "IndexScan"
                                  /\ after.pattern[BoundColumn(c, id) + 1] # Null
                    /\ after.kind = "IndexScan" =>
                           \A col \in DOMAIN after.pattern :
                               after.pattern[col] # Null =>
                                   \E c \in conjuncts :
                                       /\ Indexable(c, id)
                                       /\ BoundColumn(c, id) + 1 = col
                                       /\ OtherSide(c, id) = after.pattern[col]

\* a Scan indexed by an equality with the ElementAccess on the right, next to
\* a conjunct that is not indexable
C7_Witness ==
    /\ lastPass = "CreateIndices"
    /\ \E id \in SearchIdentifiers :
           /\ FilteredScan(id)
           /\ SearchAfter(id).kind = "IndexScan"
           /\ \E c, d \in Range(getConditions(ScanBefore(id).operation.condition)) :
                  /\ Indexable(c, id) /\ BindingSides(c, id) = {"rhs"}
                  /\ SearchAfter(id).pattern[BoundColumn(c, id) + 1] = c.lhs
                  /\ ~Indexable(d, id)

\* the conjuncts of a left-leaning chain: no right operand is a Conjunction
RECURSIVE LeftLeaning(_)
LeftLeaning(cond) ==
    cond.kind = "Conjunction" =>
        (cond.rhs.kind # "Conjunction" /\ LeftLeaning(cond.lhs))

\* the atomic conjuncts of the residual Filter below an IndexScan
ResidualAtoms(indexScan) ==
    IF indexScan.operation.kind = "Filter"
        THEN Range(InOrder(indexScan.operation.condition))
        ELSE {}

CollisionExample == Conjunction(Constraint("EQ", A00, N7), Constraint("EQ", A00, N9))

RECURSIVE SearchSignature(_)
SearchSignature(node) ==
    IF isSearch(node)
        THEN <<[relation |-> node.relation, identifier |-> node.identifier]>>
                 \o SearchSignature(node.operation)
    ELSE IF isNested(node) THEN SearchSignature(node.operation)
    ELSE <<>>

RECURSIVE PatternsSized(_)
PatternsSized(node) ==
    IF ~isNested(node) THEN TRUE
    ELSE /\ node.kind = "IndexScan" => Len(node.pattern) = getArity(node.relation)
         /\ PatternsSized(node.operation)

\* C9: every IndexScan emitted by CreateIndices has a pattern as long as the
\* arity of its relation, and keeps the relation and the identifier of the
\* Scan it replaces.
C9_PatternWellFormed ==
    /\ PatternsSized(query.operation)
    /\ lastPass = "CreateIndices" =>
           SearchSignature(query.operation) = SearchSignature(prevQuery.operation)

\* a Scan of the unary relation and a Scan of the binary one, both indexed
C9_Witness ==
    /\ lastPass = "CreateIndices"
    /\ \E id \in SearchIdentifiers :
           /\ FilteredScan(id) /\ ScanBefore(id).relation = "S"
           /\ SearchAfter(id).kind = "IndexScan"
    /\ \E id \in SearchIdentifiers :
           /\ FilteredScan(id) /\ ScanBefore(id).relation = "R"
           /\ SearchAfter(id).kind = "IndexScan"

\* the operation nest down to the next search, which is kept as a stub
RECURSIVE UpToSearch(_)
UpToSearch(node) ==
    IF isSearch(node)
        THEN [kind |-> "Search", relation |-> node.relation,
              identifier |-> node.identifier]
    ELSE IF isNested(node) THEN [node EXCEPT !.operation = UpToSearch(node.operation)]
    ELSE node

\* the equalities a pattern stands for, each column read with the
\* ElementAccess on the side that `sides` gives it
PatternAtoms(pattern, id, sides) ==
    LET bound == {col \in DOMAIN pattern : pattern[col] # Null}
        atom(col) == IF sides[col] = "lhs"
                         THEN Constraint("EQ", ElementAccess(id, col - 1), pattern[col])
                         ELSE Constraint("EQ", pattern[col], ElementAccess(id, col - 1))
    IN  BagOfSeq([i \in 1..Cardinality(bound) |->
                     atom(CHOOSE col \in bound :
                             Cardinality({b \in bound : b < col}) = i - 1)])

\* the rewritten scan holds the conjuncts of the Filter once each, in its
\* pattern or in the given residual, above the given body
Conserved(before, after, residual, body) ==
    /\ UpToSearch(body) = UpToSearch(before.operation.operation)
    /\ \E sides \in [DOMAIN after.pattern -> {"lhs", "rhs"}] :
           BagOfSeq(InOrder(before.operation.condition))
               = PatternAtoms(after.pattern, after.identifier, sides) (+) residual

\* C10: when a Scan with an immediate Filter is rewritten, every conjunct of
\* the Filter is in the output exactly once, as the value of a pattern column
\* or as a conjunct of the residual Filter; the residual Filter exists iff a
\* conjunct was not moved into the pattern, and the Filter's child becomes the
\* body.
C10_ConjunctsConserved ==
    lastPass = "CreateIndices" =>
        \A id \in SearchIdentifiers :
            (FilteredScan(id) /\ SearchAfter(id).kind = "IndexScan") =>
                LET before == ScanBefore(id)
                    after == SearchAfter(id)
                    moved == Cardinality({col \in DOMAIN after.pattern :
                                             after.pattern[col] # Null})
                    all == Len(InOrder(before.operation.condition))
                IN  IF moved = all
                        THEN Conserved(before, after, EmptyBag, after.operation)
                        ELSE /\ after.operation.kind = "Filter"
                             /\ Conserved(before, after,
                                    BagOfSeq(InOrder(after.operation.condition)),
                                    after.operation.operation)

\* a rewritten Scan with a residual Filter that keeps a duplicate equality,
\* and a rewritten Scan without residual Filter
C10_Witness ==
    /\ lastPass = "CreateIndices"
    /\ \E id \in SearchIdentifiers :
           /\ FilteredScan(id) /\ SearchAfter(id).kind = "IndexScan"
           /\ SearchAfter(id).operation.kind = "Filter"
           /\ \E c \in ResidualAtoms(SearchAfter(id)) : Indexable(c, id)
           /\ UpToSearch(SearchAfter(id).operation.operation)
                  = UpToSearch(ScanBefore(id).operation.operation)
    /\ \E id \in SearchIdentifiers :
           /\ FilteredScan(id) /\ SearchAfter(id).kind = "IndexScan"
           /\ UpToSearch(SearchAfter(id).operation)
                  = UpToSearch(ScanBefore(id).operation.operation)

\* a Scan of the query handed to the pass that rewriteScan has no index for:
\* its child is no Filter, or no conjunct of the Filter is indexable
Unindexable(id) ==
    LET scan == ScanBefore(id)
    IN  /\ scan # Null /\ scan.kind = "Scan"
        /\ \/ scan.operation.kind # "Filter"
           \/ \A c \in Range(InOrder(scan.operation.condition)) : ~Indexable(c, id)

\* C11: createIndices returns true iff a Scan was replaced by an IndexScan; a
\* Scan whose child is no Filter or whose Filter has no indexable conjunct is
\* left as it is; when the pass returns false the query is structurally
\* unchanged, and a second application right after a first returns false.
C11_ChangeReport ==
    /\ [](lastPass = "CreateIndices" =>
             /\ passChanged <=>
                    \E id \in SearchIdentifiers :
                        /\ ScanBefore(id) # Null /\ ScanBefore(id).kind = "Scan"
                        /\ SearchAfter(id).kind = "IndexScan"
             /\ \A id \in SearchIdentifiers :
                    Unindexable(id) =>
                        /\ SearchAfter(id).kind = "Scan"
                        /\ UpToSearch(SearchAfter(id).operation)
                               = UpToSearch(ScanBefore(id).operation)
             /\ ~passChanged => query = prevQuery)
    /\ [][(lastPass = "CreateIndices" /\ lastPass' = "CreateIndices") =>
              (passChanged' = FALSE /\ query' = query)]_vars

\* a pass that returned true for a query in which a Scan with a Filter
\* without indexable conjunct stayed a Scan above a Scan that was replaced
C11_Witness ==
    /\ lastPass = "CreateIndices"
    /\ passChanged
    /\ Unindexable(0) /\ FilteredScan(0) /\ SearchAfter(0).kind = "Scan"
    /\ FilteredScan(1) /\ SearchAfter(1).kind = "IndexScan"

-----------------------------------------------------------------------------
(* Claims about ConvertExistenceChecks *)

\* the identifiers of the ElementAccesses anywhere at or below a node: in
\* Project arguments, operator and record arguments, conditions and patterns
RECURSIVE AccessedIdentifiers(_)
RECURSIVE AccessedIdentifiersOfAll(_, _)
AccessedIdentifiersOfAll(nodes, i) ==
    IF i > Len(nodes) THEN {}
    ELSE (IF nodes[i] = Null THEN {} ELSE AccessedIdentifiers(nodes[i]))
             \cup AccessedIdentifiersOfAll(nodes, i + 1)

AccessedIdentifiers(node) ==
    CASE node.kind = "ElementAccess" -> {node.identifier}
      [] node.kind \in {"Number", "EmptinessCheck"} -> {}
      [] node.kind \in {"IntrinsicOperator", "UserDefinedOperator", "PackRecord"} ->
            AccessedIdentifiersOfAll(node.args, 1)
      [] node.kind \in {"Constraint", "Conjunction"} ->
            AccessedIdentifiers(node.lhs) \cup AccessedIdentifiers(node.rhs)
      [] node.kind = "Negation" -> AccessedIdentifiers(node.operand)
      [] node.kind = "ExistenceCheck" -> AccessedIdentifiersOfAll(node.values, 1)
      [] node.kind = "Project" -> AccessedIdentifiersOfAll(node.values, 1)
      [] node.kind = "Filter" ->
            AccessedIdentifiers(node.condition) \cup AccessedIdentifiers(node.operation)
      [] node.kind \in {"Scan", "UnpackRecord"} -> AccessedIdentifiers(node.operation)
      [] node.kind = "IndexScan" ->
            AccessedIdentifiersOfAll(node.pattern, 1)
                \cup AccessedIdentifiers(node.operation)

\* the reference levels of the UnpackRecords at or below an operation
RECURSIVE UnpackedLevels(_)
UnpackedLevels(node) ==
    (IF node.kind = "UnpackRecord" THEN {node.referenceLevel} ELSE {})
        \cup (IF isNested(node) THEN UnpackedLevels(node.operation) ELSE {})

\* the body of a search never reads the tuple the search binds
OnlyWitnesses(search) ==
    /\ search.identifier \notin AccessedIdentifiers(search.operation)
    /\ search.identifier \notin UnpackedLevels(search.operation)

\* the nest in which every Scan and IndexScan that only witnesses has become
\* a Filter on the emptiness of, or the existence of a match in, its relation
RECURSIVE Collapsed(_)
Collapsed(node) ==
    IF isRelationSearch(node) /\ OnlyWitnesses(node)
        THEN Filter(IF node.kind = "Scan"
                        THEN Negation(EmptinessCheck(node.relation))
                        ELSE ExistenceCheck(node.relation, node.pattern),
                    Collapsed(node.operation))
    ELSE IF isNested(node) THEN [node EXCEPT !.operation = Collapsed(node.operation)]
    ELSE node

NestIdentifiers == {0, 1, 2}

\* C12: a Scan or IndexScan with identifier i is rewritten iff its body holds
\* no ElementAccess of i anywhere and no UnpackRecord with reference level i;
\* a Scan becomes Filter(Negation(EmptinessCheck(rel)), body), an IndexScan
\* with pattern P becomes Filter(ExistenceCheck(rel, P), body); references to
\* outer identifiers do not prevent the rewrite.
C12_ExistenceCriterion ==
    lastPass = "ConvertExistenceChecks" =>
        /\ query.operation = Collapsed(prevQuery.operation)
        /\ \A id \in NestIdentifiers :
               LET search == ScanBefore(id)
               IN  (search # Null /\ isRelationSearch(search)) =>
                       (OnlyWitnesses(search) <=> SearchAfter(id) = Null)

\* an inner search was rewritten although its body reads the outer tuple, and
\* the outer search was kept because a record or a user-defined operator in
\* the Project reads its tuple
C12_Witness ==
    /\ lastPass = "ConvertExistenceChecks"
    /\ ScanBefore(0) # Null /\ isRelationSearch(ScanBefore(0))
    /\ ScanBefore(1) # Null /\ isRelationSearch(ScanBefore(1))
    /\ SearchAfter(0) # Null
    /\ SearchAfter(1) = Null
    /\ 0 \in AccessedIdentifiers(ScanBefore(1).operation)
    /\ \E project \in operationsOf(query.operation, "Project") :
           \E i \in DOMAIN project.values :
               project.values[i].kind \in {"PackRecord", "UserDefinedOperator"}

\* C13: ConvertExistenceChecks preserves the tuples the query projects, for
\* every contents of the relations (an empty scanned relation and a pattern
\* that matches no tuple included), also when several nested searches are
\* converted in the same application.
C13_ExistencePreservesSemantics ==
    lastPass = "ConvertExistenceChecks" =>
        \A db \in Databases : EvalQuery(prevQuery, db) = EvalQuery(query, db)

\* two nested searches, an IndexScan among them, were converted in one
\* application; the query projects a tuple for some contents and none for
\* other contents in which no relation is empty
C13_Witness ==
    /\ lastPass = "ConvertExistenceChecks"
    /\ ScanBefore(0) # Null /\ ScanBefore(1) # Null
    /\ isRelationSearch(ScanBefore(0)) /\ isRelationSearch(ScanBefore(1))
    /\ "IndexScan" \in {ScanBefore(0).kind, ScanBefore(1).kind}
    /\ SearchAfter(0) = Null /\ SearchAfter(1) = Null
    /\ \E db \in Databases : EvalQuery(query, db) # {}
    /\ \E db \in Databases : db.R # {} /\ db.S # {} /\ EvalQuery(query, db) = {}

\* a Scan whose immediate Filter holds only indexable equalities on pairwise
\* distinct columns and whose remaining body never reads the Scan's tuple
PureIndexFilter(scan) ==
    /\ scan.kind = "Scan"
    /\ scan.operation.kind = "Filter"
    /\ LET atoms == InOrder(scan.operation.condition)
       IN  /\ \A k \in DOMAIN atoms : Indexable(atoms[k], scan.identifier)
           /\ \A k, l \in DOMAIN atoms :
                  k # l => BoundColumn(atoms[k], scan.identifier)
                               # BoundColumn(atoms[l], scan.identifier)
    /\ scan.identifier \notin AccessedIdentifiers(scan.operation.operation)
    /\ scan.identifier \notin UnpackedLevels(scan.operation.operation)

\* the values the equalities of the immediate Filter give the columns
CapturedPattern(scan) ==
    LET atoms == Range(InOrder(scan.operation.condition))
        binds(col) == {c \in atoms : BoundColumn(c, scan.identifier) = col - 1}
    IN  [col \in 1..getArity(scan.relation) |->
            IF binds(col) = {} THEN Null
            ELSE OtherSide(CHOOSE c \in binds(col) : TRUE, scan.identifier)]

\* the Filter with the given condition at or below node, Null if none
RECURSIVE FilterWith(_, _)
FilterWith(node, condition) ==
    IF node.kind = "Filter" /\ node.condition = condition THEN node
    ELSE IF isNested(node) THEN FilterWith(node.operation, condition)
    ELSE Null

\* C14: for a Scan whose immediate Filter holds only indexable equalities on
\* pairwise distinct columns and whose remaining body does not read its
\* tuple, ConvertExistenceChecks alone leaves the Scan in place, whereas
\* CreateIndices followed by ConvertExistenceChecks yields
\* Filter(ExistenceCheck(rel, P), body) with P exactly the captured values.
C14_PassOrdering ==
    /\ [](lastPass = "ConvertExistenceChecks" =>
             \A id \in NestIdentifiers :
                 (ScanBefore(id) # Null /\ PureIndexFilter(ScanBefore(id))) =>
                     /\ SearchAfter(id) # Null
                     /\ SearchAfter(id).kind = "Scan"
                     /\ SearchAfter(id).operation.kind = "Filter"
                     /\ SearchAfter(id).operation.condition
                            = ScanBefore(id).operation.condition)
    /\ [][(lastPass = "CreateIndices" /\ lastPass' = "ConvertExistenceChecks") =>
              \A id \in NestIdentifiers :
                  (ScanBefore(id) # Null /\ PureIndexFilter(ScanBefore(id))) =>
                      LET scan == ScanBefore(id)
                          body == FindSearch(query.operation, id).operation
                          check == ExistenceCheck(scan.relation, CapturedPattern(scan))
                          filter == FilterWith(query'.operation, check)
                      IN  /\ FindSearch(query'.operation, id) = Null
                          /\ filter # Null
                          /\ operationsOf(filter.operation, "Project")
                                 = operationsOf(body, "Project")
                          /\ operationsOf(body, "Scan") \cup operationsOf(body, "IndexScan") = {}
                                 => filter.operation = body]_vars

\* an IndexScan that CreateIndices built from two equalities alone has become
\* an ExistenceCheck on both columns
C14_Witness ==
    /\ lastPass = "ConvertExistenceChecks"
    /\ \E id \in NestIdentifiers :
           LET search == ScanBefore(id)
           IN  /\ search # Null /\ search.kind = "IndexScan"
               /\ search.relation = "R"
               /\ \A col \in DOMAIN search.pattern : search.pattern[col] # Null
               /\ search.operation.kind # "Filter"
               /\ SearchAfter(id) = Null
               /\ FilterWith(query.operation,
                             ExistenceCheck("R", search.pattern)) # Null

-----------------------------------------------------------------------------
(* Claims about the adornment worklist *)

\* C15: each (relation, adornment) pair is inserted into headAdornmentsToDo
\* at most once and never again after it was popped, headAdornmentsSeen only
\* grows, nextAdornmentToProcess is only called on a non-empty worklist, and
\* the pop/queue loop terminates.
C15_WorklistTerminates ==
    /\ [](/\ \A pair \in AdornedPredicateSet : inserted[pair] <= 1
          /\ popped \cap headAdornmentsToDo = {}
          /\ \A pair \in popped \cup headAdornmentsToDo :
                 getAdornmentID(pair[1], pair[2]) \in headAdornmentsSeen)
    /\ [][/\ headAdornmentsSeen \subseteq headAdornmentsSeen'
          /\ popped' # popped => headAdornmentsToDo # {}]_vars
    /\ <>(adornPc = "done" /\ headAdornmentsToDo = {})

\* the run has ended after more adornments were popped than were seeded,
\* each of them inserted once
C15_Witness ==
    /\ adornPc = "done"
    /\ Cardinality(popped) > MaxSeeds
    /\ \A pair \in popped : inserted[pair] = 1
    /\ headAdornmentsToDo = {}

-----------------------------------------------------------------------------
(* Claims about UniqueAggregationVariables *)

\* the value of aggNumber when the visit reaches the aggregators of the k-th
\* clause of a program
numberAtClause(program, k) ==
    visitClauses(SubSeq(program, 1, k - 1), 0, FALSE).aggNumber

\* the value of aggNumber when the visit reaches the i-th of a list of
\* aggregators that is entered with aggNumber = start
numberAt(aggregators, i, start) ==
    visitAggregators(SubSeq(aggregators, 1, i - 1), start, FALSE).aggNumber

\* the names an aggregator with a target expression gives to its variables
\* when it is renamed with the given aggNumber
givenNames(agg, aggNumber) ==
    {newName(name, aggNumber) : name \in targetNames(agg)}

\* the names of the Variable nodes of a clause outside its i-th aggregator
outsideAggregator(c, i) ==
    elements(c.variables)
        \cup UNION {variablesOf(c.aggregators[j]) :
                        j \in DOMAIN c.aggregators \ {i}}

\* the names of the Variable nodes of a clause outside the j-th aggregator
\* nested in its i-th aggregator
outsideNested(c, i, j) ==
    LET agg == c.aggregators[i]
    IN  outsideAggregator(c, i) \cup targetNames(agg) \cup elements(agg.body)
            \cup UNION {variablesOf(agg.aggregators[k]) :
                            k \in DOMAIN agg.aggregators \ {j}}

\* C16: after an application of the pass, no name given to the variables of
\* an aggregator with a target expression is carried by a variable outside
\* that aggregator in the same clause, the variables renamed for the other
\* aggregators included
C16_Freshness ==
    aggApplications >= 1 =>
        \A k \in DOMAIN translationUnit :
            LET c == translationUnit[k]
                before == prevUnit[k].aggregators
                atClause == numberAtClause(prevUnit, k)
            IN  \A i \in DOMAIN c.aggregators :
                    LET atAggregator == numberAt(before, i, atClause)
                        nested == before[i].aggregators
                        own == numberAt(nested, Len(nested) + 1, atAggregator)
                    IN  /\ givenNames(before[i], own)
                               \cap outsideAggregator(c, i) = {}
                        /\ \A j \in DOMAIN nested :
                               givenNames(nested[j],
                                          numberAt(nested, j, atAggregator))
                                   \cap outsideNested(c, i, j) = {}

RECURSIVE targetMentionsVariable(_)
\* the aggregator, or one nested in it, has a target expression with a
\* variable in it
targetMentionsVariable(agg) ==
    \/ targetNames(agg) # {}
    \/ \E i \in DOMAIN agg.aggregators : targetMentionsVariable(agg.aggregators[i])

\* C17: applied to a program it has already processed, in which the target
\* expression of some aggregator mentions a variable, the pass renames nothing
\* and returns changed = false
C17_Idempotent ==
    [][(/\ aggApplications >= 1
        /\ \E k \in DOMAIN translationUnit :
               \E i \in DOMAIN translationUnit[k].aggregators :
                   targetMentionsVariable(translationUnit[k].aggregators[i]))
          => (translationUnit' = translationUnit /\ aggChanged' = FALSE)]_vars

-----------------------------------------------------------------------------
(* Claims about the enumeration of conjuncts *)

\* the conjuncts of a right-leaning chain: no left operand is a Conjunction
RECURSIVE RightLeaning(_)
RightLeaning(cond) ==
    cond.kind = "Conjunction" =>
        (cond.lhs.kind # "Conjunction" /\ RightLeaning(cond.rhs))

Reverse(seq) == [i \in DOMAIN seq |-> seq[Len(seq) + 1 - i]]

\* the elements of s occur in t in the order they have in s
RECURSIVE IsSubsequence(_, _)
IsSubsequence(s, t) ==
    IF s = <<>> THEN TRUE
    ELSE IF t = <<>> THEN FALSE
    ELSE IF Head(s) = Head(t) THEN IsSubsequence(Tail(s), Tail(t))
    ELSE IsSubsequence(s, Tail(t))

\* the number of Filters directly below one another at the top of an operation
RECURSIVE LeadingFilters(_)
LeadingFilters(op) ==
    IF op.kind = "Filter" THEN 1 + LeadingFilters(op.operation) ELSE 0

\* the Filter of the Scan has been replaced by a residual Filter
HasResidual(id) ==
    /\ SearchAfter(id).kind = "IndexScan"
    /\ LeadingFilters(SearchAfter(id).operation)
           = LeadingFilters(ScanBefore(id).operation)

ResidualOf(id) == InOrder(SearchAfter(id).operation.condition)

-----------------------------------------------------------------------------
(* Claims about head bindings and the order of bindVariable calls *)

\* C19: bindHeadVariable adds its argument to boundHeadVariables and leaves
\* boundVariables and bindingDependencies as they are; a variable x with a
\* dependency set of head-bound variables only is still reported unbound by
\* isBound, also after bindVariable calls for other variables, whereas
\* bindVariable for the variables of that set would bind x
C19_HeadBindingsStay ==
    /\ [](\A x \in DOMAIN bindingDependencies \ boundHeadVariables :
              \A dep \in bindingDependencies[x] :
                  dep \subseteq boundHeadVariables =>
                      /\ ~isBound(x)
                      /\ x \in reduceDependencies(boundVariables \cup dep,
                                                  bindingDependencies,
                                                  MaxPasses).bound)
    /\ [][boundHeadVariables' # boundHeadVariables =>
              /\ \E varName \in HeadVarNames :
                     boundHeadVariables' = boundHeadVariables \cup {varName}
              /\ boundVariables' = boundVariables
              /\ bindingDependencies' = bindingDependencies]_vars

\* x depends on {v} alone, v has been bound as a head variable and another
\* variable has been bound by bindVariable since: x is still unbound
C19_Witness ==
    \E x \in DOMAIN bindingDependencies \ boundHeadVariables :
        \E v \in boundHeadVariables :
            /\ bindingDependencies[x] = {{v}}
            /\ explicitlyBound # {}
            /\ ~isBound(x)

\* the variable names in a fixed order: each pair of two different names is
\* taken once
VarOrder == <<"w", "x", "y", "z">>

\* C20: from every store, bindVariable(a) then bindVariable(b) ends in the
\* same boundVariables and bindingDependencies as bindVariable(b) then
\* bindVariable(a), and bindVariable(a) a second time changes nothing; a
\* bindVariable call for a variable bound by an earlier call changes neither
C20_OrderIndependent ==
    /\ [](\A i \in DOMAIN VarOrder : \A j \in (i + 1)..Len(VarOrder) :
              LET a == VarOrder[i]
                  b == VarOrder[j]
                  first == reduceDependencies(boundVariables \cup {a},
                                              bindingDependencies, MaxPasses)
                  second == reduceDependencies(first.bound \cup {b}, first.deps,
                                               MaxPasses)
                  other == reduceDependencies(boundVariables \cup {b},
                                              bindingDependencies, MaxPasses)
                  swapped == reduceDependencies(other.bound \cup {a}, other.deps,
                                                MaxPasses)
              IN  /\ second.bound = swapped.bound
                  /\ second.deps = swapped.deps)
    /\ [](\A a \in VarNames :
              LET first == reduceDependencies(boundVariables \cup {a},
                                              bindingDependencies, MaxPasses)
                  again == reduceDependencies(first.bound \cup {a}, first.deps,
                                              MaxPasses)
              IN  /\ again.bound = first.bound
                  /\ again.deps = first.deps)
    /\ [][explicitlyBound' = explicitlyBound =>
              /\ boundVariables' = boundVariables
              /\ bindingDependencies' = bindingDependencies]_vars

\* two bindVariable calls have bound a variable that depends on both their
\* arguments, and dependencies are left in the store
C20_Witness ==
    /\ Cardinality(explicitlyBound) = 2
    /\ DOMAIN bindingDependencies # {}
    /\ \E x \in boundVariables \ explicitlyBound :
           \A a \in explicitlyBound :
               x \notin reduceDependencies({a}, generateBindingDependencies(clause),
                                           MaxPasses).bound

-----------------------------------------------------------------------------
(* Claims about the scope of tuple accesses *)

\* every ElementAccess(i, c) at or below an operation lies under a search
\* with identifier i, where enclosing holds the identifiers of the searches
\* above the operation: the accesses of a Filter's condition (the pattern of
\* an ExistenceCheck included) and of a Project refer to enclosing searches,
\* the accesses of an IndexScan's pattern to searches enclosing the IndexScan
RECURSIVE InScope(_, _)
InScope(op, enclosing) ==
    CASE op.kind = "Filter" ->
            /\ AccessedIdentifiers(op.condition) \subseteq enclosing
            /\ InScope(op.operation, enclosing)
      [] op.kind \in {"Scan", "UnpackRecord"} ->
            /\ op.identifier \notin enclosing
            /\ InScope(op.operation, enclosing \cup {op.identifier})
      [] op.kind = "IndexScan" ->
            /\ op.identifier \notin enclosing
            /\ AccessedIdentifiersOfAll(op.pattern, 1) \subseteq enclosing
            /\ InScope(op.operation, enclosing \cup {op.identifier})
      [] op.kind = "Project" ->
            AccessedIdentifiersOfAll(op.values, 1) \subseteq enclosing

\* C21: in a query that was well scoped when translated, after any sequence
\* of LevelConditions, CreateIndices and ConvertExistenceChecks every
\* ElementAccess(i, c) of a Filter, an ExistenceCheck pattern or a Project
\* lies under a search with identifier i, and every ElementAccess of an
\* IndexScan's pattern refers to a search enclosing that IndexScan
C21_ScopePreserved == InScope(query.operation, {})

\* all three passes have worked on the query: below the outer Scan lies the
\* Filter on an ExistenceCheck whose pattern reads the outer tuple, made from
\* an IndexScan, and the Project below it reads the outer tuple too
C21_Witness ==
    /\ lastPass = "LevelConditions"
    /\ query.operation.kind = "Scan"
    /\ query.operation.operation.kind = "Filter"
    /\ query.operation.operation.condition.kind = "ExistenceCheck"
    /\ AccessedIdentifiers(query.operation.operation.condition)
           = {query.operation.identifier}
    /\ query.operation.operation.operation.kind = "Project"
    /\ AccessedIdentifiers(query.operation.operation.operation)
           = {query.operation.identifier}

====
